---- MODULE Spec2Model ----
(***************************************************************************)
(* Model of Generator.generate (generate.go): rule-set construction, the   *)
(* collection loop over the input paths, the directory walk callback and   *)
(* the hand-over of the manifest to fs.Pack.                               *)
(*                                                                         *)
(* Strings that the code parses or matches (glob strings, base names) are  *)
(* sequences of one-character strings.  A path is the sequence of its      *)
(* components, <<>> being the working directory ".".                       *)
(***************************************************************************)
EXTENDS Integers, Sequences, FiniteSets, TLC

\* ------------------------------------------------------------------ bounds
MaxInputs == 2
MaxLen == 3

\* ------------------------------------------------------- the file system
A_TXT == <<"a", ".", "t", "x", "t">>
B_LOG == <<"b", ".", "l", "o", "g">>
C_TXT == <<"c", ".", "t", "x", "t">>
F_LOG == <<"f", ".", "l", "o", "g">>
X_GO == <<"x", ".", "g", "o">>
X_TMP == <<"x", ".", "t", "m", "p">>
D_DIR == <<"d">>
SUB == <<"s", "u", "b">>
GITIGNORE == <<".", "g", "i", "t", "i", "g", "n", "o", "r", "e">>

DirPaths == {<<>>, <<D_DIR>>, <<D_DIR, SUB>>}
FilePaths ==
    {<<GITIGNORE>>, <<F_LOG>>, <<D_DIR, A_TXT>>, <<D_DIR, B_LOG>>, <<D_DIR, SUB, C_TXT>>,
     <<D_DIR, X_GO>>}
AllPaths == DirPaths \cup FilePaths

\* paths a caller may name as an input; <<X_TMP>> does not exist
InputChoices ==
    {<<D_DIR>>, <<D_DIR, SUB>>, <<D_DIR, A_TXT>>, <<D_DIR, B_LOG>>, <<F_LOG>>, <<X_TMP>>}

\* byte order of the characters that occur in names
Chars ==
    <<"\t", " ", "\"", "'", "*", ",", ".", "?",
      "a", "b", "c", "d", "e", "f", "g", "h", "i", "j", "k", "l", "m",
      "n", "o", "p", "q", "r", "s", "t", "u", "v", "w", "x", "y", "z">>

Ord(c) == CHOOSE k \in 1..Len(Chars) : Chars[k] = c

Min(a, b) == IF a < b THEN a ELSE b

\* string comparison a < b, byte-wise
LexLess(a, b) ==
    \E k \in 1..(Min(Len(a), Len(b)) + 1) :
        /\ \A j \in 1..(k - 1) : a[j] = b[j]
        /\ \/ k = Len(a) + 1 /\ k <= Len(b)
           \/ k <= Len(a) /\ k <= Len(b) /\ Ord(a[k]) < Ord(b[k])

Name(p) == IF p = <<>> THEN <<".">> ELSE p[Len(p)]

Size(p) == IF p \in FilePaths THEN Len(Name(p)) ELSE 0

Exists(p) == p \in AllPaths

\* os.FileInfo of an existing path
Stat(p) == [name |-> Name(p), isDir |-> p \in DirPaths, size |-> Size(p)]

ChildNames(p) ==
    {q[Len(q)] : q \in {r \in AllPaths : Len(r) = Len(p) + 1 /\ SubSeq(r, 1, Len(p)) = p}}

RECURSIVE SortNames(_)
SortNames(S) ==
    IF S = {} THEN <<>>
    ELSE LET m == CHOOSE x \in S : \A y \in S \ {x} : LexLess(x, y)
         IN <<m>> \o SortNames(S \ {m})

\* the entries of directory p, in the order filepath.Walk visits them
ReadDir(p) == LET names == SortNames(ChildNames(p))
              IN [k \in 1..Len(names) |-> Append(p, names[k])]

RECURSIVE PreOrder(_)
RECURSIVE PreOrderAll(_)
\* filepath.Walk(root, fn) with an fn that never returns SkipDir
PreOrder(p) == <<p>> \o (IF p \in DirPaths THEN PreOrderAll(ReadDir(p)) ELSE <<>>)
PreOrderAll(ps) == IF ps = <<>> THEN <<>> ELSE PreOrder(Head(ps)) \o PreOrderAll(Tail(ps))

\* ------------------------------------------------------------ glob rules
Empty == <<>>
GLOB_LOG == <<"*", ".", "l", "o", "g">>
GLOB_MIX == <<" ", "\"", "?", ".", "t", "x", "t", "\"", ",", "b", ".", "l", "o", "g">>
GlobChoices == {Empty, GLOB_LOG, GLOB_MIX}

RECURSIVE Match(_, _)
\* filepath.Match for patterns made of literals, '?' and '*'
Match(pattern, name) ==
    IF pattern = <<>> THEN name = <<>>
    ELSE IF Head(pattern) = "*"
         THEN \E k \in 0..Len(name) : Match(Tail(pattern), SubSeq(name, k + 1, Len(name)))
    ELSE IF name = <<>> THEN FALSE
    ELSE IF Head(pattern) = "?" THEN Match(Tail(pattern), Tail(name))
    ELSE Head(pattern) = Head(name) /\ Match(Tail(pattern), Tail(name))

RECURSIVE Split(_, _)
\* strings.Split(s, sep) for a one-character separator
Split(s, sep) ==
    IF \A k \in 1..Len(s) : s[k] # sep THEN <<s>>
    ELSE LET k == CHOOSE j \in 1..Len(s) : s[j] = sep /\ \A h \in 1..(j - 1) : s[h] # sep
         IN <<SubSeq(s, 1, k - 1)>> \o Split(SubSeq(s, k + 1, Len(s)), sep)

RECURSIVE TrimLeft(_, _)
TrimLeft(s, cutset) ==
    IF s # <<>> /\ Head(s) \in cutset THEN TrimLeft(Tail(s), cutset) ELSE s

RECURSIVE TrimRight(_, _)
TrimRight(s, cutset) ==
    IF s # <<>> /\ s[Len(s)] \in cutset THEN TrimRight(SubSeq(s, 1, Len(s) - 1), cutset) ELSE s

\* a Trim that forgets the right end
TrimLeftOnly(s, cutset) == TrimLeft(s, cutset)

\* strings.Trim(s, cutset)
Trim(s, cutset) == TrimRight(TrimLeft(s, cutset), cutset)

\* the cutset of line 175: a blank and a double quote
Cutset == {" ", "\""}

wildcardFrom(include, patterns) ==
    LET w == Split(patterns, ",")
    IN [kind |-> "glob", include |-> include,
        patterns |-> [k \in 1..Len(w) |-> Trim(w[k], Cutset)], ign |-> {}]

RECURSIVE MatchLoop(_, _, _, _)
\* the loop of includeWildcard.test: the first matching pattern decides
MatchLoop(include, patterns, name, pass) ==
    IF patterns = <<>> THEN pass
    ELSE IF Match(Head(patterns), name) THEN include
    ELSE MatchLoop(include, Tail(patterns), name, pass)

\* a test whose default is the include flag itself
includeWildcardTestDefault(w, info) ==
    IF info.isDir THEN TRUE
    ELSE MatchLoop(w.include, w.patterns, info.name, w.include)

\* a test that does not let directories through
includeWildcardTestNoDirs(w, info) ==
    MatchLoop(w.include, w.patterns, info.name, ~w.include)

includeWildcardTest(w, info) ==
    IF info.isDir THEN TRUE
    ELSE MatchLoop(w.include, w.patterns, info.name, ~w.include)

\* ign.MatchesPath is the predicate "the name is one the .gitignore matches"
gitignoreWildcardTest(w, info) == ~(info.name \in w.ign)

cardTest(card, info) ==
    IF card.kind = "glob" THEN includeWildcardTest(card, info)
    ELSE gitignoreWildcardTest(card, info)

RECURSIVE cardsTest(_, _)
\* wildcards.test: every rule must pass, the first failing one rejects
cardsTest(w, info) ==
    IF w = <<>> THEN TRUE
    ELSE IF ~cardTest(Head(w), info) THEN FALSE
    ELSE cardsTest(Tail(w), info)

\* a rule list that takes both glob strings
BuildCardsBoth(inc, exc) ==
    (IF inc # Empty THEN <<wildcardFrom(TRUE, inc)>> ELSE <<>>)
        \o (IF exc # Empty THEN <<wildcardFrom(FALSE, exc)>> ELSE <<>>)

\* lines 65-69
BuildCards(inc, exc) ==
    IF inc # Empty THEN <<wildcardFrom(TRUE, inc)>>
    ELSE IF exc # Empty THEN <<wildcardFrom(FALSE, exc)>>
    ELSE <<>>

\* ------------------------------------------------------------------ state
VARIABLES
    inputFiles, includeGlob, excludeGlob, useGitignore, quality,  \* Generator
    unreadable, ignored,                                          \* environment
    pc, cards, files, state, total, i, walkQ,            \* generate()
    packCalls, bundle, err                                        \* results

vars == <<inputFiles, includeGlob, excludeGlob, useGitignore, quality,
          unreadable, ignored,
          pc, cards, files, state, total, i, walkQ,
          packCalls, bundle, err>>

config == <<inputFiles, includeGlob, excludeGlob, useGitignore, quality, unreadable, ignored>>

NoErr == [kind |-> "none", path |-> <<>>, wrapped |-> FALSE]
Error(kind, path, wrapped) == [kind |-> kind, path |-> path, wrapped |-> wrapped]
Nil == <<>>

RECURSIVE SeqsUpTo(_, _)
SeqsUpTo(S, n) ==
    IF n = 0 THEN {<<>>}
    ELSE LET shorter == SeqsUpTo(S, n - 1)
         IN shorter \cup {Append(s, x) : s \in {t \in shorter : Len(t) = n - 1}, x \in S}

UnreadableChoices == {{}, {<<GITIGNORE>>}, {<<D_DIR, A_TXT>>}, {<<F_LOG>>}, {<<D_DIR, SUB>>}}
IgnoreChoices == {{B_LOG}, {SUB, A_TXT}}
QualityChoices == {11, 12}

Locals ==
    /\ pc = "rules"
    /\ cards = <<>>
    /\ files = <<>>
    /\ state = {}
    /\ total = 0
    /\ i = 1
    /\ walkQ = <<>>
    /\ packCalls = 0
    /\ bundle = Nil
    /\ err = NoErr

Init ==
    /\ inputFiles \in SeqsUpTo(InputChoices, MaxInputs)
    /\ includeGlob \in GlobChoices
    /\ excludeGlob \in GlobChoices
    /\ useGitignore \in BOOLEAN
    /\ quality \in QualityChoices
    /\ unreadable \in UnreadableChoices
    /\ ignored \in IgnoreChoices
    /\ Locals

\* fs.NewFile: the record of a path, or a failure when it cannot be opened
NewFileFails(p) == p \in unreadable
NewFile(p) == [Fpath |-> p, Fsize |-> Size(p)]

\* fs.Pack: the blob of a manifest, or a failure for an unsupported quality
PackFails(q) == ~(q \in 1..11)
Pack(fl, q) == <<[packed |-> fl, quality |-> q]>>

Return(b, e) ==
    /\ pc' = "done"
    /\ bundle' = b
    /\ err' = e

\* lines 65-69
BuildRules ==
    /\ pc = "rules"
    /\ cards' = BuildCards(includeGlob, excludeGlob)
    /\ pc' = "gitignore"
    /\ UNCHANGED <<config, files, state, total, i, walkQ, packCalls, bundle, err>>

\* parseGitignores: one gitignore rule per .gitignore file under "."
GitignorePaths == SelectSeq(PreOrder(<<>>), LAMBDA p : p \notin DirPaths /\ Name(p) = GITIGNORE)
parseGitignores ==
    IF \E k \in 1..Len(GitignorePaths) : GitignorePaths[k] \in unreadable
    THEN [cards |-> <<>>,
          err |-> Error("gitignore",
                        GitignorePaths[CHOOSE k \in 1..Len(GitignorePaths) :
                                          /\ GitignorePaths[k] \in unreadable
                                          /\ \A j \in 1..(k - 1) : GitignorePaths[j] \notin unreadable],
                        TRUE)]
    ELSE [cards |-> [k \in 1..Len(GitignorePaths) |->
                        [kind |-> "gitignore", include |-> FALSE, patterns |-> <<>>, ign |-> ignored]],
          err |-> NoErr]

\* lines 71-77
LoadGitignores ==
    /\ pc = "gitignore"
    /\ IF useGitignore
       THEN LET r == parseGitignores
            IN IF r.err # NoErr
               THEN Return(Nil, r.err) /\ UNCHANGED cards
               ELSE /\ cards' = cards \o r.cards
                    /\ pc' = "loop"
                    /\ UNCHANGED <<bundle, err>>
       ELSE /\ pc' = "loop"
            /\ UNCHANGED <<cards, bundle, err>>
    /\ UNCHANGED <<config, files, state, total, i, walkQ, packCalls>>

\* a duplicate check that never fires
IsDupNever(st, path) == FALSE

\* lines 87 and 111
IsDup(st, path) == path \in st

\* a manifest that grows at its head
PrependFile(fl, f) == <<f>> \o fl

\* lines 98 and 117
AppendFile(fl, f) == Append(fl, f)

\* lines 80-83
InputNotFound ==
    /\ pc = "loop"
    /\ i <= Len(inputFiles)
    /\ ~Exists(inputFiles[i])
    /\ Return(Nil, Error("notfound", inputFiles[i], FALSE))
    /\ UNCHANGED <<config, cards, files, state, total, i, walkQ, packCalls>>

\* a direct file that is put to the rule set first
DirectFileFiltered ==
    /\ pc = "loop"
    /\ i <= Len(inputFiles)
    /\ Exists(inputFiles[i])
    /\ ~Stat(inputFiles[i]).isDir
    /\ LET input == inputFiles[i]
       IN IF ~cardsTest(cards, Stat(input))
          THEN /\ i' = i + 1
               /\ UNCHANGED <<files, state, total, pc, bundle, err>>
          ELSE IF IsDup(state, input)
          THEN /\ Return(Nil, Error("dup", input, FALSE))
               /\ UNCHANGED <<files, state, total, i>>
          ELSE IF NewFileFails(input)
          THEN /\ Return(Nil, Error("open", input, TRUE))
               /\ state' = state \cup {input}
               /\ UNCHANGED <<files, total, i>>
          ELSE /\ state' = state \cup {input}
               /\ total' = total + NewFile(input).Fsize
               /\ files' = AppendFile(files, NewFile(input))
               /\ i' = i + 1
               /\ UNCHANGED <<pc, bundle, err>>
    /\ UNCHANGED <<config, cards, walkQ, packCalls>>

\* lines 86-100
DirectFile ==
    /\ pc = "loop"
    /\ i <= Len(inputFiles)
    /\ Exists(inputFiles[i])
    /\ ~Stat(inputFiles[i]).isDir
    /\ LET input == inputFiles[i]
       IN IF IsDup(state, input)
          THEN /\ Return(Nil, Error("dup", input, FALSE))
               /\ UNCHANGED <<files, state, total, i>>
          ELSE IF NewFileFails(input)
          THEN /\ Return(Nil, Error("open", input, TRUE))
               /\ state' = state \cup {input}
               /\ UNCHANGED <<files, total, i>>
          ELSE /\ state' = state \cup {input}
               /\ total' = total + NewFile(input).Fsize
               /\ files' = AppendFile(files, NewFile(input))
               /\ i' = i + 1
               /\ UNCHANGED <<pc, bundle, err>>
    /\ UNCHANGED <<config, cards, walkQ, packCalls>>

\* line 102: filepath.Walk starts at the input directory
WalkStart ==
    /\ pc = "loop"
    /\ i <= Len(inputFiles)
    /\ Exists(inputFiles[i])
    /\ Stat(inputFiles[i]).isDir
    /\ walkQ' = <<inputFiles[i]>>
    /\ pc' = "walk"
    /\ UNCHANGED <<config, cards, files, state, total, i, packCalls, bundle, err>>

\* a callback that returns filepath.SkipDir for a rejected directory
DescendIfPass(info, pass) == info.isDir /\ pass

\* line 104 returns nil, never filepath.SkipDir: a directory is always entered
Descend(info, pass) == info.isDir

\* what filepath.Walk visits after path, whose callback returned nil
NextWalk(path, pass, rest) ==
    (IF Descend(Stat(path), pass) THEN ReadDir(path) ELSE <<>>) \o rest

\* a walk error that is dropped
WalkFailedNever(e) == FALSE

\* line 121
WalkFailed(e) == e # NoErr

\* lines 102-123: one call of the walk callback; an error it returns ends
\* the walk and, through lines 121-123, generate()
WalkFn ==
    /\ pc = "walk"
    /\ walkQ # <<>>
    /\ LET path == Head(walkQ)
           info == Stat(path)
           pass == cardsTest(cards, info)
           cbErr == IF ~pass THEN NoErr
                    ELSE IF NewFileFails(path) THEN Error("open", path, TRUE)
                    ELSE IF IsDup(state, path) THEN Error("dup", path, TRUE)
                    ELSE NoErr
       IN IF cbErr # NoErr
          THEN IF WalkFailed(cbErr)
               THEN /\ Return(Nil, cbErr)
                    /\ UNCHANGED <<files, state, total, i, walkQ>>
               ELSE /\ pc' = "loop"
                    /\ i' = i + 1
                    /\ walkQ' = <<>>
                    /\ UNCHANGED <<files, state, total, bundle, err>>
          ELSE /\ IF pass
                  THEN /\ total' = total + NewFile(path).Fsize
                       /\ state' = state \cup {path}
                       /\ files' = AppendFile(files, NewFile(path))
                  ELSE UNCHANGED <<files, state, total>>
               /\ walkQ' = NextWalk(path, pass, Tail(walkQ))
               /\ UNCHANGED <<pc, i, bundle, err>>
    /\ UNCHANGED <<config, cards, packCalls>>

\* lines 121-124: filepath.Walk has returned nil, the loop goes on
WalkReturn ==
    /\ pc = "walk"
    /\ walkQ = <<>>
    /\ i' = i + 1
    /\ pc' = "loop"
    /\ UNCHANGED <<config, cards, files, state, total, walkQ, packCalls, bundle, err>>

\* lines 130-139
PackFiles ==
    /\ pc = "loop"
    /\ i > Len(inputFiles)
    /\ packCalls' = packCalls + 1
    /\ IF PackFails(quality)
       THEN Return(Nil, Error("pack", <<>>, TRUE))
       ELSE Return(Pack(files, quality), NoErr)
    /\ UNCHANGED <<config, cards, files, state, total, i, walkQ>>

Next ==
    \/ BuildRules
    \/ LoadGitignores
    \/ InputNotFound
    \/ DirectFile
    \/ WalkStart
    \/ WalkFn
    \/ WalkReturn
    \/ PackFiles

Spec == Init /\ [][Next]_vars

\* ----------------------------------------------- rule parsing on its own
\* wildcardFrom applied to every glob string of at most MaxLen characters
TrimAlphabet == {"x", ",", " ", "\t", "\"", "'"}

WInit ==
    /\ inputFiles = <<>>
    /\ includeGlob \in SeqsUpTo(TrimAlphabet, MaxLen)
    /\ excludeGlob \in {Empty, GLOB_LOG}
    /\ useGitignore = FALSE
    /\ quality = 11
    /\ unreadable = {}
    /\ ignored = {}
    /\ Locals

WNext == BuildRules

WSpec == WInit /\ [][WNext]_vars

\* ------------------------------------------------------------ properties
Paths(fl) == [k \in 1..Len(fl) |-> fl[k].Fpath]
PathSet(fl) == {fl[k].Fpath : k \in 1..Len(fl)}

Success == pc = "done" /\ err = NoErr
Manifest == Paths(bundle[1].packed)

\* p passes every rule of the rule set
Passes(p) == \A k \in 1..Len(cards) : cardTest(cards[k], Stat(p))

\* some pattern of the name-pattern rule w matches the base name of p
SomePatternMatches(w, p) == \E k \in 1..Len(w.patterns) : Match(w.patterns[k], Name(p))

Beneath(p, root) == Len(p) > Len(root) /\ SubSeq(p, 1, Len(root)) = root

RECURSIVE Concat(_)
Concat(ss) == IF ss = <<>> THEN <<>> ELSE Head(ss) \o Concat(Tail(ss))

TypeOK ==
    /\ pc \in {"rules", "gitignore", "loop", "walk", "done"}
    /\ i \in 1..(Len(inputFiles) + 1)
    /\ packCalls \in 0..1

\* the step about to be taken selects path p, which is already in the manifest
SelectedAgain(p) ==
    /\ p \in PathSet(files)
    /\ \/ pc = "loop" /\ i <= Len(inputFiles) /\ inputFiles[i] = p /\ p \in FilePaths
       \/ pc = "walk" /\ walkQ # <<>> /\ Head(walkQ) = p /\ Passes(p)

\* C1: a path selected a second time (as a direct file or by a walk, after
\* having been selected as a direct file or by a walk) makes generate()
\* return a duplicate-path error naming that path and no blob; the manifest
\* is left as it was and is not packed.
C1_DuplicateIsError ==
    [][\A p \in AllPaths :
          SelectedAgain(p) =>
              /\ pc' = "done"
              /\ err'.kind = "dup"
              /\ err'.path = p
              /\ bundle' = Nil
              /\ files' = files
              /\ packCalls' = 0]_vars

\* a walk has reached a path that an earlier input had already selected
C1_Witness ==
    /\ pc = "done"
    /\ err.kind = "dup"
    /\ err.wrapped
    /\ err.path \in FilePaths
    /\ err.path \in PathSet(files)
    /\ bundle = Nil

\* C2: no two records of the manifest have the same path, in every state of
\* generate() and in the manifest handed to fs.Pack.
C2_UniquePaths ==
    /\ \A j, k \in 1..Len(files) : j # k => files[j].Fpath # files[k].Fpath
    /\ bundle # Nil =>
          \A j, k \in 1..Len(bundle[1].packed) :
              j # k => bundle[1].packed[j].Fpath # bundle[1].packed[k].Fpath

\* a manifest of a walk and a direct file has been packed
C2_Witness ==
    /\ Success
    /\ Len(inputFiles) = 2
    /\ Len(bundle[1].packed) >= 4

\* the step about to be taken meets a failure of the collection
CollectionFails ==
    \/ /\ pc = "loop"
       /\ i <= Len(inputFiles)
       /\ \/ ~Exists(inputFiles[i])
          \/ /\ inputFiles[i] \in FilePaths
             /\ inputFiles[i] \in PathSet(files) \/ inputFiles[i] \in unreadable
    \/ /\ pc = "walk"
       /\ walkQ # <<>>
       /\ Passes(Head(walkQ))
       /\ Head(walkQ) \in PathSet(files) \/ Head(walkQ) \in unreadable

\* C7: a failure of the collection makes generate() return a nil blob and a
\* non-nil error at once: the remaining inputs are not processed (no step
\* follows the return), fs.Pack is not invoked and no record is returned.
C7_FailureReturnsNothing ==
    [][/\ CollectionFails =>
             /\ pc' = "done"
             /\ err' # NoErr
             /\ bundle' = Nil
             /\ packCalls' = 0
             /\ i' = i
       /\ pc # "done"]_vars

\* a failure with records already collected and inputs still to process
C7_Witness ==
    /\ pc = "done"
    /\ err.kind \in {"notfound", "dup", "open"}
    /\ files # <<>>
    /\ i < Len(inputFiles)
    /\ bundle = Nil
    /\ packCalls = 0

\* one directory input, an exclude pattern, gitignore off
ExcludeOnlyRun ==
    /\ Success
    /\ Len(inputFiles) = 1
    /\ inputFiles[1] \in DirPaths
    /\ includeGlob = Empty
    /\ excludeGlob # Empty
    /\ ~useGitignore

\* C3 as stated: for a directory input with an exclude pattern (gitignore
\* off) the manifest is exactly the non-directory descendants whose base name
\* matches none of the patterns, in traversal order; no directory is a record.
C3_Original ==
    ExcludeOnlyRun =>
        Manifest = SelectSeq(PreOrder(inputFiles[1]),
                             LAMBDA p : p \in FilePaths /\ ~SomePatternMatches(cards[1], p))

\* C3 amended: for a directory input with an exclude pattern (gitignore off)
\* the manifest of a successful run is, in traversal order, the input
\* directory itself, every subdirectory the walk visits and the non-directory
\* descendants whose base name matches none of the patterns.
C3_DirectoriesAreRecords ==
    ExcludeOnlyRun =>
        Manifest = SelectSeq(PreOrder(inputFiles[1]),
                             LAMBDA p : p \in DirPaths \/ ~SomePatternMatches(cards[1], p))

\* d holds a.txt, b.log, sub/c.txt and x.go; the exclude pattern is *.log
C3_Witness ==
    /\ ExcludeOnlyRun
    /\ inputFiles[1] = <<D_DIR>>
    /\ excludeGlob = GLOB_LOG
    /\ Manifest = << <<D_DIR>>, <<D_DIR, A_TXT>>, <<D_DIR, SUB>>, <<D_DIR, SUB, C_TXT>>,
                    <<D_DIR, X_GO>> >>

\* the rule set is a single name-pattern rule
SingleGlobRule == Len(cards) = 1 /\ cards[1].kind = "glob" /\ ~useGitignore

\* the walk callback is about to be called on p
Visiting(p) == pc = "walk" /\ walkQ # <<>> /\ Head(walkQ) = p

C5_DirectFileUnfiltered ==
    Success => \A k \in 1..Len(inputFiles) :
                  inputFiles[k] \in FilePaths => inputFiles[k] \in PathSet(bundle[1].packed)

\* a directly named file that fails the rule set has been packed
C5_Witness ==
    /\ Success
    /\ \E k \in 1..Len(inputFiles) :
          /\ inputFiles[k] \in FilePaths
          /\ ~Passes(inputFiles[k])
          /\ inputFiles[k] \in PathSet(bundle[1].packed)

\* what one input contributes to the manifest
Contribution(input) ==
    IF input \in FilePaths THEN <<input>>
    ELSE SelectSeq(PreOrder(input), Passes)

DirectInputs == SelectSeq(inputFiles, LAMBDA p : p \in FilePaths)
DirInputs == SelectSeq(inputFiles, LAMBDA p : p \in DirPaths)

\* C6 as stated: in the manifest handed to the packer all directly named
\* files come first, in input order, followed by the entries of each
\* directory input in traversal order.
C6_Original ==
    Success =>
        Manifest = DirectInputs \o Concat([k \in 1..Len(DirInputs) |-> Contribution(DirInputs[k])])

\* C6 amended: the manifest handed to the packer is the concatenation, in
\* input order, of what each input contributes: a directly named file
\* contributes itself, a directory input the entries of its walk that pass
\* the rule set, in traversal order.
C6_InputOrder ==
    Success =>
        Manifest = Concat([k \in 1..Len(inputFiles) |-> Contribution(inputFiles[k])])

\* a directory input followed by a directly named file
C6_Witness ==
    /\ Success
    /\ inputFiles = << <<D_DIR, SUB>>, <<F_LOG>> >>
    /\ Manifest = << <<D_DIR, SUB>>, <<D_DIR, SUB, C_TXT>>, <<F_LOG>> >>

NameRules == {k \in 1..Len(cards) : cards[k].kind = "glob"}

\* C8: the rule list holds at most one name-pattern rule, the first of the
\* list: the include rule of a non-empty include-glob string (the exclude-glob
\* string is then ignored), else the exclude rule of a non-empty exclude-glob
\* string, else none; the gitignore rules, if enabled, come after it.
C8_OneNameRule ==
    pc # "rules" =>
        /\ Cardinality(NameRules) <= 1
        /\ NameRules \subseteq {1}
        /\ includeGlob # Empty =>
              /\ NameRules = {1}
              /\ cards[1].include
              /\ cards[1].patterns = wildcardFrom(TRUE, includeGlob).patterns
        /\ (includeGlob = Empty /\ excludeGlob # Empty) =>
              /\ NameRules = {1}
              /\ ~cards[1].include
              /\ cards[1].patterns = wildcardFrom(FALSE, excludeGlob).patterns
        /\ (includeGlob = Empty /\ excludeGlob = Empty) => NameRules = {}
        /\ (pc = "loop" /\ useGitignore) =>
              /\ Len(cards) = Cardinality(NameRules) + Len(GitignorePaths)
              /\ \A k \in 1..Len(cards) : k > Cardinality(NameRules) => cards[k].kind = "gitignore"
        /\ ~useGitignore => Len(cards) = Cardinality(NameRules)

\* both glob strings given, gitignore on: an include rule, then a gitignore rule
C8_Witness ==
    /\ pc = "loop"
    /\ includeGlob # Empty
    /\ excludeGlob # Empty
    /\ includeGlob # excludeGlob
    /\ useGitignore
    /\ Len(cards) = 2
    /\ cards[1].include
    /\ cards[2].kind = "gitignore"

\* C10: in the walk of a directory input a directory that fails the rule set
\* is not a record, yet its subtree is walked: every non-directory entry
\* beneath it that passes all rules is in the manifest.
C10_NoPruning ==
    Success =>
        \A k \in 1..Len(inputFiles) : \A x \in DirPaths :
            (inputFiles[k] \in DirPaths /\ (x = inputFiles[k] \/ Beneath(x, inputFiles[k])) /\ ~Passes(x)) =>
                /\ x \notin PathSet(bundle[1].packed)
                /\ \A y \in FilePaths :
                      (Beneath(y, x) /\ Passes(y)) => y \in PathSet(bundle[1].packed)

\* .gitignore matches "sub": d/sub is no record, d/sub/c.txt beneath it is
C10_Witness ==
    /\ Success
    /\ useGitignore
    /\ inputFiles = << <<D_DIR>> >>
    /\ ~Passes(<<D_DIR, SUB>>)
    /\ <<D_DIR, SUB>> \notin PathSet(bundle[1].packed)
    /\ <<D_DIR, SUB, C_TXT>> \in PathSet(bundle[1].packed)

\* the positions of the commas of s, and its k-th comma-separated token
Commas(s) == {j \in 1..Len(s) : s[j] = ","}
CommaAt(s, k) == CHOOSE j \in Commas(s) : Cardinality({h \in Commas(s) : h < j}) = k - 1
Token(s, k) ==
    LET from == IF k = 1 THEN 1 ELSE CommaAt(s, k - 1) + 1
        to == IF k = Cardinality(Commas(s)) + 1 THEN Len(s) ELSE CommaAt(s, k) - 1
    IN SubSeq(s, from, to)

\* t without its longest prefix and suffix made of characters of cut
Stripped(t, cut) ==
    LET keep == {j \in 1..Len(t) : t[j] \notin cut}
    IN IF keep = {} THEN <<>>
       ELSE SubSeq(t, CHOOSE j \in keep : \A h \in keep : j <= h,
                      CHOOSE j \in keep : \A h \in keep : h <= j)

\* the patterns of the rule built from the include-glob string are its
\* comma-separated tokens, each without its surrounding characters of cut
PatternsAre(cut) ==
    (pc # "rules" /\ includeGlob # Empty) =>
        /\ Len(cards[1].patterns) = Cardinality(Commas(includeGlob)) + 1
        /\ \A k \in 1..Len(cards[1].patterns) :
              cards[1].patterns[k] = Stripped(Token(includeGlob, k), cut)

\* C9 as stated: every token loses all surrounding whitespace, single quotes
\* and double quotes.
C9_Original == PatternsAre({" ", "\t", "'", "\""})

\* C9 amended: wildcardFrom splits the pattern string on commas and removes
\* from each token the surrounding blanks (U+0020) and double quotes only; a
\* surrounding single quote or tab stays part of the pattern.
C9_TrimsBlankAndDoubleQuote == PatternsAre({" ", "\""})

\* x after a double quote and before a blank yields the pattern x
C9_Witness ==
    /\ pc # "rules"
    /\ includeGlob = <<"\"", "x", " ">>
    /\ cards[1].patterns = << <<"x">> >>

====
